---- MODULE Spec2Model ----
(***************************************************************************)
(* Model of inscriptis/css.py: HtmlElement, CssParse and DEFAULT_CSS.      *)
(*                                                                         *)
(* A Python str is modelled as a sequence of one-character strings, so     *)
(* that lower(), split(), strip(), replace(), the RE_UNIT regular          *)
(* expression and float() are computed character by character.  Objects    *)
(* live in a heap (a sequence of HtmlElement records addressed by index),  *)
(* so that aliasing between a baseline and its clone is expressible.       *)
(* Numbers parsed by float() are exact rationals num/den; within the       *)
(* digit counts used here Python's binary floats round identically.        *)
(* An operator that may raise returns a record whose exc field names the   *)
(* exception, "" standing for a normal return.                             *)
(***************************************************************************)
EXTENDS Integers, Sequences, FiniteSets, TLC

\* ------------------------------------------------------------------------
\* Python str primitives
\* ------------------------------------------------------------------------

UpperCase == <<"A","B","C","D","E","F","G","H","I","J","K","L","M","N","O","P","Q","R","S","T","U","V","W","X","Y","Z">>

LowerCase == <<"a","b","c","d","e","f","g","h","i","j","k","l","m","n","o","p","q","r","s","t","u","v","w","x","y","z">>

Digits == <<"0","1","2","3","4","5","6","7","8","9">>

Whitespace == {" ", "\t", "\n", "\r", "\f"}

InSeq(c, s) == \E i \in 1..Len(s) : s[i] = c

IndexOf(c, s) == CHOOSE i \in 1..Len(s) : s[i] = c /\ \A j \in 1..(i-1) : s[j] # c

\* str.lower()
str_lower(s) ==
    [i \in 1..Len(s) |->
        IF InSeq(s[i], UpperCase) THEN LowerCase[IndexOf(s[i], UpperCase)] ELSE s[i]]

\* str.split(sep) for a one-character separator: never returns an empty list
RECURSIVE str_split(_, _)
str_split(s, sep) ==
    IF ~InSeq(sep, s) THEN <<s>>
    ELSE <<SubSeq(s, 1, IndexOf(sep, s) - 1)>>
             \o str_split(SubSeq(s, IndexOf(sep, s) + 1, Len(s)), sep)

\* str.split(sep, 1), used only when sep occurs in s
str_split1(s, sep) ==
    <<SubSeq(s, 1, IndexOf(sep, s) - 1), SubSeq(s, IndexOf(sep, s) + 1, Len(s))>>

\* s[lo..hi] for the least and greatest members of a non-empty set of indices
Between(s, keep) ==
    SubSeq(s, CHOOSE i \in keep : \A j \in keep : i <= j,
              CHOOSE i \in keep : \A j \in keep : i >= j)

\* str.strip()
str_strip(s) ==
    IF \A i \in 1..Len(s) : s[i] \in Whitespace THEN <<>>
    ELSE Between(s, {i \in 1..Len(s) : s[i] \notin Whitespace})

\* str.replace(old, new): non-overlapping occurrences, left to right
RECURSIVE str_replace(_, _, _)
str_replace(s, old, new) ==
    IF Len(s) < Len(old) THEN s
    ELSE IF SubSeq(s, 1, Len(old)) = old
         THEN new \o str_replace(SubSeq(s, Len(old)+1, Len(s)), old, new)
         ELSE <<s[1]>> \o str_replace(Tail(s), old, new)

\* ------------------------------------------------------------------------
\* float(), round() and the RE_UNIT regular expression
\* ------------------------------------------------------------------------

\* the character class [\-0-9\.]
IsNumChar(c) == c = "-" \/ c = "." \/ InSeq(c, Digits)

\* the character class \w
IsWordChar(c) == InSeq(c, LowerCase) \/ InSeq(c, UpperCase) \/ InSeq(c, Digits) \/ c = "_"

\* last index e >= i-1 such that s[i..e] lies in [\-0-9\.]
NumRunEnd(s, i) ==
    CHOOSE e \in (i-1)..Len(s) :
        /\ \A j \in i..e : IsNumChar(s[j])
        /\ (e < Len(s) => ~IsNumChar(s[e+1]))

\* last index e >= i-1 such that s[i..e] lies in \w
WordRunEnd(s, i) ==
    CHOOSE e \in (i-1)..Len(s) :
        /\ \A j \in i..e : IsWordChar(s[j])
        /\ (e < Len(s) => ~IsWordChar(s[e+1]))

NoMatch == [matched |-> FALSE, g1 |-> <<>>, g2 |-> <<>>]

\* group 1 is s[i..g], group 2 the run of \w characters after it
MatchUpTo(s, i, g) ==
    [matched |-> TRUE,
     g1 |-> SubSeq(s, i, g),
     g2 |-> SubSeq(s, g+1, WordRunEnd(s, g+1))]

\* G: the ends of group 1 that a \w character follows; the greedy group
\* takes the largest
LongestGroup(s, i, G) ==
    IF G = {} THEN NoMatch
    ELSE MatchUpTo(s, i, CHOOSE x \in G : \A y \in G : x >= y)

\* RE_UNIT anchored at position i: group 1 is greedy and gives characters
\* back until a \w character follows it
RE_UNIT_match(s, i) ==
    IF ~IsNumChar(s[i]) THEN NoMatch
    ELSE LongestGroup(s, i, {g \in i..NumRunEnd(s, i) : g < Len(s) /\ IsWordChar(s[g+1])})

\* the match at the least of the given start positions, if there is one
LeftmostMatch(s, starts) ==
    IF starts = {} THEN NoMatch
    ELSE RE_UNIT_match(s, CHOOSE i \in starts : \A j \in starts : i <= j)

\* RE_UNIT.search(s): the leftmost match
RE_UNIT_search(s) ==
    LeftmostMatch(s, {i \in 1..Len(s) : RE_UNIT_match(s, i).matched})

RECURSIVE Pow10(_)
Pow10(k) == IF k = 0 THEN 1 ELSE 10 * Pow10(k-1)

RECURSIVE DigitsToInt(_)
DigitsToInt(s) ==
    IF s = <<>> THEN 0
    ELSE 10 * DigitsToInt(SubSeq(s, 1, Len(s)-1)) + (IndexOf(s[Len(s)], Digits) - 1)

\* the number after its sign, dots being the positions of its points: at
\* most one point, at least one digit and no further sign, else a ValueError
Unsigned(body, dots) ==
    IF /\ \A i \in 1..Len(body) : body[i] # "-"
       /\ Cardinality(dots) <= 1
       /\ \E i \in 1..Len(body) : InSeq(body[i], Digits)
    THEN [exc |-> "",
          num |-> DigitsToInt(SelectSeq(body, LAMBDA c : c # ".")),
          den |-> Pow10(IF dots = {} THEN 0 ELSE Len(body) - (CHOOSE i \in dots : TRUE))]
    ELSE [exc |-> "ValueError", num |-> 0, den |-> 1]

UnsignedOf(body) == Unsigned(body, {i \in 1..Len(body) : body[i] = "."})

Negated(x) == [exc |-> x.exc, num |-> 0 - x.num, den |-> x.den]

\* float(s) for s over [\-0-9\.]: an optional sign, then the number
float(s) ==
    IF s # <<>> /\ s[1] = "-" THEN Negated(UnsignedOf(Tail(s))) ELSE UnsignedOf(s)

\* a plausible slip: floor(x - 1/2) instead of floor(x + 1/2)
RoundHalfEven_minusHalf(n, d) == (2*n - d) \div (2*d)

\* int(round(n/d)) for d > 0: Python 3 rounds halves to the even neighbour
RoundHalfEven(n, d) ==
    IF 2 * (n % d) < d THEN n \div d
    ELSE IF 2 * (n % d) > d THEN (n \div d) + 1
    ELSE IF (n \div d) % 2 = 0 THEN n \div d ELSE (n \div d) + 1

\* ------------------------------------------------------------------------
\* HtmlElement
\* ------------------------------------------------------------------------

Display == {"inline", "block", "none"}

WhiteSpace == {"normal", "pre"}

\* HtmlElement.__init__ with every argument given
HtmlElement(tag, prefix, suffix, display, margin_before, margin_after, padding, whitespace) ==
    [tag |-> tag, prefix |-> prefix, suffix |-> suffix, display |-> display,
     margin_before |-> margin_before, margin_after |-> margin_after,
     padding |-> padding, whitespace |-> whitespace]

\* HtmlElement(tag, display=display): the other arguments take their defaults
HtmlElementD(tag, display) == HtmlElement(tag, "", "", display, 0, 0, 0, "normal")

\* HtmlElement.clone(): the field values handed to the constructor
clone(self) ==
    HtmlElement(self.tag, self.prefix, self.suffix, self.display,
                self.margin_before, self.margin_after, self.padding,
                self.whitespace)

\* ------------------------------------------------------------------------
\* CssParse
\* ------------------------------------------------------------------------

PxPerEm == 8

EmUnits == {<<"e","m">>, <<"q","e","m">>, <<"r","e","m">>}

\* value = float(m.group(1)); the unit decides between value and value/8
EmOfValue(value, unit) ==
    IF value.exc # "" THEN [exc |-> value.exc, val |-> 0]
    ELSE IF unit \notin EmUnits
         THEN [exc |-> "", val |-> RoundHalfEven(value.num, value.den * PxPerEm)]
         ELSE [exc |-> "", val |-> RoundHalfEven(value.num, value.den)]

\* a failed search makes m None, so m.group(1) raises AttributeError;
\* float() raises ValueError
EmOfMatch(m) ==
    IF ~m.matched THEN [exc |-> "AttributeError", val |-> 0]
    ELSE EmOfValue(float(m.g1), m.g2)

\* CssParse._get_em
_get_em(length) == EmOfMatch(RE_UNIT_search(length))

Raised(e, el) == [exc |-> e, el |-> el]

Done(el) == [exc |-> "", el |-> el]

\* html_element.<field> = em, em being the outcome of _get_em: nothing is
\* assigned when _get_em raised
Assign(em, html_element, field) ==
    IF em.exc # "" THEN Raised(em.exc, html_element)
    ELSE Done([html_element EXCEPT ![field] = em.val])

\* a plausible slip: an unrecognised value leaves display as it was
_attr_display_keep(value, html_element) ==
    IF value = <<"b","l","o","c","k">> THEN Done([html_element EXCEPT !.display = "block"])
    ELSE IF value = <<"n","o","n","e">> THEN Done([html_element EXCEPT !.display = "none"])
    ELSE Done(html_element)

_attr_display(value, html_element) ==
    IF value = <<"b","l","o","c","k">> THEN Done([html_element EXCEPT !.display = "block"])
    ELSE IF value = <<"n","o","n","e">> THEN Done([html_element EXCEPT !.display = "none"])
    ELSE Done([html_element EXCEPT !.display = "inline"])

_attr_margin_top(value, html_element) ==
    Assign(_get_em(value), html_element, "margin_before")

\* a plausible copy-and-paste slip: the handler also overwrites margin_before
_attr_margin_bottom_both(value, html_element) ==
    LET r == Assign(_get_em(value), html_element, "margin_after")
    IN  IF r.exc # "" THEN r ELSE Assign(_get_em(value), r.el, "margin_before")

_attr_margin_bottom(value, html_element) ==
    Assign(_get_em(value), html_element, "margin_after")

\* a plausible slip: the padding is added to the current one
_attr_padding_left_add(value, html_element) ==
    LET r == _get_em(value)
    IN  IF r.exc # "" THEN Raised(r.exc, html_element)
        ELSE Done([html_element EXCEPT !.padding = @ + r.val])

_attr_padding_left(value, html_element) ==
    Assign(_get_em(value), html_element, "padding")

\* the attributes of CssParse whose name starts with "_attr_", each with the
\* function object it is bound to; the last three are the registered aliases
AttrTable ==
    << <<<<"_","a","t","t","r","_","d","i","s","p","l","a","y">>,       "_attr_display">>,
       <<<<"_","a","t","t","r","_","m","a","r","g","i","n","_","t","o","p">>,    "_attr_margin_top">>,
       <<<<"_","a","t","t","r","_","m","a","r","g","i","n","_","b","o","t","t","o","m">>, "_attr_margin_bottom">>,
       <<<<"_","a","t","t","r","_","p","a","d","d","i","n","g","_","l","e","f","t">>,  "_attr_padding_left">>,
       <<<<"_","a","t","t","r","_","m","a","r","g","i","n","_","b","e","f","o","r","e">>, "_attr_margin_top">>,
       <<<<"_","a","t","t","r","_","m","a","r","g","i","n","_","a","f","t","e","r">>,  "_attr_margin_bottom">>,
       <<<<"_","a","t","t","r","_","p","a","d","d","i","n","g","_","s","t","a","r","t">>, "_attr_padding_left">> >>

\* getattr(CssParse, name): "" stands for the AttributeError
getattr(name) ==
    IF \E i \in 1..Len(AttrTable) : AttrTable[i][1] = name
    THEN AttrTable[CHOOSE i \in 1..Len(AttrTable) : AttrTable[i][1] = name][2]
    ELSE ""

apply_style(fn, value, html_element) ==
    CASE fn = "_attr_display"       -> _attr_display(value, html_element)
      [] fn = "_attr_margin_top"    -> _attr_margin_top(value, html_element)
      [] fn = "_attr_margin_bottom" -> _attr_margin_bottom(value, html_element)
      [] fn = "_attr_padding_left"  -> _attr_padding_left(value, html_element)

\* a plausible slip: the vendor prefix is not removed
AttrName_keepPrefix(key) == <<"_","a","t","t","r","_">> \o str_replace(key, <<"-">>, <<"_">>)

\* "_attr_" + key.replace('-webkit-', '').replace("-", "_")
AttrName(key) == <<"_","a","t","t","r","_">> \o str_replace(str_replace(key, <<"-","w","e","b","k","i","t","-">>, <<>>), <<"-">>, <<"_">>)

RECURSIVE Reverse(_)
Reverse(s) == IF s = <<>> THEN <<>> ELSE Append(Reverse(Tail(s)), Head(s))

\* a plausible slip: the directives are visited last to first
Directives_reversed(style_attribute) == Reverse(str_split(str_lower(style_attribute), ";"))

\* style_attribute.lower().split(';')
Directives(style_attribute) == str_split(str_lower(style_attribute), ";")

\* the except clause: AttributeError is swallowed and the element is as it
\* was, any other exception leaves the function
Except(r, el) == IF r.exc = "AttributeError" THEN Done(el) ELSE r

\* the try block, fn being the outcome of getattr
Try(fn, value, el) ==
    IF fn = "" THEN Done(el) ELSE Except(apply_style(fn, value, el), el)

\* kv: the directive split at its first ':'
KeyValue(kv, el) == Try(getattr(AttrName(str_strip(kv[1]))), str_strip(kv[2]), el)

\* one pass through the body of the for loop on the element el
LoopBody(style_directive, el) ==
    IF ~InSeq(":", style_directive) THEN Done(el)
    ELSE KeyValue(str_split1(style_directive, ":"), el)

\* the for loop over ds, r being the outcome of the preceding pass
RECURSIVE RunLoop(_, _)
RunLoop(ds, r) ==
    IF r.exc # "" \/ ds = <<>> THEN r
    ELSE RunLoop(Tail(ds), LoopBody(Head(ds), r.el))

\* get_style_attribute run without interruption on a private clone
get_style_attribute(style_attribute, html_element) ==
    RunLoop(Directives(style_attribute), Done(clone(html_element)))

\* ------------------------------------------------------------------------
\* DEFAULT_CSS
\* ------------------------------------------------------------------------

DEFAULT_CSS_entries ==
    << HtmlElementD("head", "none"),
       HtmlElementD("link", "none"),
       HtmlElementD("meta", "none"),
       HtmlElementD("script", "none"),
       HtmlElementD("title", "none"),
       HtmlElementD("style", "none"),
       HtmlElement("p", "", "", "block", 1, 1, 0, "normal"),
       HtmlElement("figure", "", "", "block", 1, 1, 0, "normal"),
       HtmlElement("h1", "", "", "block", 1, 1, 0, "normal"),
       HtmlElement("h2", "", "", "block", 1, 1, 0, "normal"),
       HtmlElement("h3", "", "", "block", 1, 1, 0, "normal"),
       HtmlElement("h4", "", "", "block", 1, 1, 0, "normal"),
       HtmlElement("h5", "", "", "block", 1, 1, 0, "normal"),
       HtmlElement("h6", "", "", "block", 1, 1, 0, "normal"),
       HtmlElement("ul", "", "", "block", 0, 0, 4, "normal"),
       HtmlElement("ol", "", "", "block", 0, 0, 4, "normal"),
       HtmlElementD("li", "block"),
       HtmlElementD("address", "block"),
       HtmlElementD("article", "block"),
       HtmlElementD("aside", "block"),
       HtmlElementD("div", "block"),
       HtmlElementD("footer", "block"),
       HtmlElementD("header", "block"),
       HtmlElementD("hgroup", "block"),
       HtmlElementD("layer", "block"),
       HtmlElementD("main", "block"),
       HtmlElementD("nav", "block"),
       HtmlElementD("figcaption", "block"),
       HtmlElementD("blockquote", "block"),
       HtmlElement("q", "\"", "\"", "inline", 0, 0, 0, "normal"),
       HtmlElementD("span", "inline") >>

TagNames == {DEFAULT_CSS_entries[i].tag : i \in 1..Len(DEFAULT_CSS_entries)}

\* DEFAULT_CSS[tag]: the heap address of the record built for tag at import
DEFAULT_CSS(tag) ==
    CHOOSE i \in 1..Len(DEFAULT_CSS_entries) : DEFAULT_CSS_entries[i].tag = tag

\* ------------------------------------------------------------------------
\* Inputs
\* ------------------------------------------------------------------------

\* most declarations a style string of the sequence pool is joined from
MaxDecls == 2

LengthKeys ==
    { <<"m","a","r","g","i","n","-","t","o","p">>, <<"m","a","r","g","i","n","-","b","o","t","t","o","m">>, <<"p","a","d","d","i","n","g","-","l","e","f","t">>,
      <<"m","a","r","g","i","n","-","b","e","f","o","r","e">>, <<"m","a","r","g","i","n","-","a","f","t","e","r">>, <<"p","a","d","d","i","n","g","-","s","t","a","r","t">>,
      <<"-","w","e","b","k","i","t","-","m","a","r","g","i","n","-","b","e","f","o","r","e">>, <<"-","w","e","b","k","i","t","-","m","a","r","g","i","n","-","a","f","t","e","r">>, <<"-","w","e","b","k","i","t","-","p","a","d","d","i","n","g","-","s","t","a","r","t">>,
      <<"m","a","r","-","w","e","b","k","i","t","-","g","i","n","-","t","o","p">>, <<"M","A","R","G","I","N","-","T","O","P">>, <<" ","P","a","d","d","i","n","g","-","L","e","f","t"," ">>, <<"m","a","r","g","i","n","_","b","o","t","t","o","m">> }

LengthValues ==
    { <<"1","6","p","x">>, <<"3","e","m">>, <<"2","e","m">>, <<"1","2","p","t">>, <<"2","r","e","m">>, <<"4","q","e","m">>, <<"2","4","P","X">>, <<" ","2","E","M"," ">>,
      <<"2","0","p","x">>, <<"1","2","p","x">>, <<"4","p","x">>, <<"2","p","x">>, <<"1",".","5","e","m">>, <<"2",".","5","e","m">>, <<".","5","e","m">>, <<"5",".","e","m">>,
      <<"1","6">>, <<"5">>, <<"1",".","5">>, <<"-","5">>, <<"a","b","c">>, <<>>, <<"3"," ","e","m">>, <<"3","e","m","2">>, <<"x","-","1","2","p","x">>,
      <<"-","5","e","m">>, <<"-","2","0","p","x">>, <<"-",".","5","e","m">>,
      <<"1",".","2",".","3","p","x">>, <<"-","-","5","e","m">>, <<"-","e","m">>, <<"5","-","e","m">> }

DisplayKeys == { <<"d","i","s","p","l","a","y">>, <<"D","I","S","P","L","A","Y">>, <<" ","D","i","s","p","l","a","y","\t">>, <<"-","w","e","b","k","i","t","-","d","i","s","p","l","a","y">> }

DisplayValues ==
    { <<"b","l","o","c","k">>, <<"n","o","n","e">>, <<"i","n","l","i","n","e">>, <<"i","n","l","i","n","e","-","b","l","o","c","k">>, <<>>, <<" ","N","O","N","E">>, <<"B","l","o","c","k"," ">>,
      <<"b","l","o","c","k","s">>, <<"b","l","o","c","k",":","n","o","n","e">>, <<"n","o"," ","n","e">> }

OtherDecls ==
    { <<>>, <<" ">>, <<"d","i","s","p","l","a","y">>, <<"m","a","r","g","i","n","-","t","o","p">>, <<"c","o","l","o","r",":","r","e","d">>, <<":">>, <<":","2","e","m">>,
      <<"m","a","r","g","i","n",":","2","e","m">>, <<"t","o","p",":","2","e","m">>, <<"-","w","e","b","k","i","t","-",":","n","o","n","e">>, <<"m","a","r","g","i","n","-","t","o","p","-","w","e","b","k","i","t","-",":","2","e","m">>,
      <<"w","e","b","k","i","t","-","m","a","r","g","i","n","-","b","e","f","o","r","e",":","2","e","m">>, <<"g","e","t","_","e","m",":","2","e","m">>,
      <<";">>, <<"p","a","d","d","i","n","g","-","l","e","f","t",":","1","6","p","x",";">>, <<";","m","a","r","g","i","n","-","t","o","p",":","1","6",";",";","d","i","s","p","l","a","y",":","i","n","l","i","n","e","-","b","l","o","c","k",";"," ">> }

\* style strings holding a single declaration, and a few other shapes
SingleDecls ==
    {k \o <<":">> \o v : k \in LengthKeys, v \in LengthValues}
        \cup {k \o <<":">> \o v : k \in DisplayKeys, v \in DisplayValues}
        \cup OtherDecls

\* the declarations that longer style strings are joined from
CoreDecls ==
    { <<"m","a","r","g","i","n","-","t","o","p",":","1","e","m">>, <<"m","a","r","g","i","n","-","t","o","p",":","2","e","m">>, <<"m","a","r","g","i","n","-","b","e","f","o","r","e",":","1","6","p","x">>,
      <<"m","a","r","g","i","n","-","t","o","p",":","a","b","c">>, <<"m","a","r","g","i","n","-","b","o","t","t","o","m",":","3","e","m">>, <<"m","a","r","g","i","n","-","b","o","t","t","o","m",":","1",".","2",".","3","p","x">>,
      <<"m","a","r","g","i","n","-","t","o","p",":","1","6">>, <<"p","a","d","d","i","n","g","-","s","t","a","r","t",":","-","5","e","m">>, <<"d","i","s","p","l","a","y",":","n","o","n","e">>,
      <<"D","I","S","P","L","A","Y",":"," ","B","l","o","c","k">>, <<"c","o","l","o","r",":","r","e","d">>, <<"d","i","s","p","l","a","y">>, <<>> }

RECURSIVE Join(_)
Join(ds) ==
    IF ds = <<>> THEN <<>>
    ELSE IF Len(ds) = 1 THEN ds[1]
    ELSE ds[1] \o <<";">> \o Join(Tail(ds))

Styles ==
    SingleDecls \cup {Join(ds) : ds \in UNION {[1..n -> CoreDecls] : n \in 0..MaxDecls}}

\* the tags whose DEFAULT_CSS record is passed as the baseline
BaselineTags == {"head", "p", "ul", "q"}

\* the calls that run concurrently, and their inputs
Procs == {1, 2}

ConcDecls == { <<"m","a","r","g","i","n","-","t","o","p",":","2","e","m">>, <<"p","a","d","d","i","n","g","-","l","e","f","t",":","1","6","p","x">>, <<"D","i","s","p","l","a","y",":","N","o","n","e">> }

\* up to MaxDecls of them, each at most once
ConcStyles ==
    {Join(ds) : ds \in {f \in UNION {[1..n -> ConcDecls] : n \in 0..MaxDecls} :
                            \A i, j \in 1..Len(f) : i # j => f[i] # f[j]}}

ConcTags == {"p", "ul"}

\* ------------------------------------------------------------------------
\* State
\* ------------------------------------------------------------------------

VARIABLES
    heap,        \* the HtmlElement objects, by address
    pc,          \* per call: "idle", "loop", "returned" or "raised"
    style,       \* per call: the style_attribute argument
    base,        \* per call: the address passed as html_element
    custome,     \* per call: the address held by custome_html_element
    directives,  \* per call: the directives the for loop has yet to visit
    result,      \* per call: the address returned, 0 before the return
    prev         \* per call: the result of the preceding call, 0 if none

vars == <<heap, pc, style, base, custome, directives, result, prev>>

Init ==
    /\ heap = DEFAULT_CSS_entries
    /\ pc = [p \in Procs |-> "idle"]
    /\ style = [p \in Procs |-> <<>>]
    /\ base = [p \in Procs |-> 0]
    /\ custome = [p \in Procs |-> 0]
    /\ directives = [p \in Procs |-> <<>>]
    /\ result = [p \in Procs |-> 0]
    /\ prev = [p \in Procs |-> 0]

\* a plausible slip: clone() hands back the object it was called on
clone_addr_alias(h, self) == self

\* the address of the object html_element.clone() returns
clone_addr(h, self) == Len(h) + 1

\* the heap after html_element.clone()
clone_heap(h, self) == Append(h, clone(h[self]))

\* entry of get_style_attribute up to the head of the for loop
Enter(p, s, b) ==
    /\ style' = [style EXCEPT ![p] = s]
    /\ base' = [base EXCEPT ![p] = b]
    /\ heap' = clone_heap(heap, b)
    /\ custome' = [custome EXCEPT ![p] = clone_addr(heap, b)]
    /\ directives' = [directives EXCEPT ![p] = Directives(s)]
    /\ pc' = [pc EXCEPT ![p] = "loop"]
    /\ result' = [result EXCEPT ![p] = 0]

\* get_style_attribute(s, DEFAULT_CSS[tag]) is called, with s and tag drawn
\* from the given pools
Call(p, styles, tags) ==
    /\ pc[p] = "idle"
    /\ \E s \in styles, tag \in tags : Enter(p, s, DEFAULT_CSS(tag))
    /\ UNCHANGED prev

\* the effect of an iteration whose body ended as r: the element is as the
\* handler left it, and an exception that leaves the function ends the call
\* without a result
Outcome(p, r) ==
    /\ heap' = [heap EXCEPT ![custome[p]] = r.el]
    /\ pc' = [pc EXCEPT ![p] = IF r.exc # "" THEN "raised" ELSE "loop"]

\* one iteration of the for loop
Step(p) ==
    /\ pc[p] = "loop"
    /\ directives[p] # <<>>
    /\ Outcome(p, LoopBody(Head(directives[p]), heap[custome[p]]))
    /\ directives' = [directives EXCEPT ![p] = Tail(@)]
    /\ UNCHANGED <<style, base, custome, result, prev>>

\* the for loop is exhausted: return custome_html_element
Return(p) ==
    /\ pc[p] = "loop"
    /\ directives[p] = <<>>
    /\ pc' = [pc EXCEPT ![p] = "returned"]
    /\ result' = [result EXCEPT ![p] = custome[p]]
    /\ UNCHANGED <<heap, style, base, custome, directives, prev>>

\* the caller resolves the same style string again on the record returned
Recall(p) ==
    /\ pc[p] = "returned"
    /\ prev[p] = 0
    /\ prev' = [prev EXCEPT ![p] = result[p]]
    /\ Enter(p, style[p], result[p])

\* a single caller
Next ==
    \/ Call(1, Styles, BaselineTags)
    \/ Step(1)
    \/ Return(1)
    \/ Recall(1)

Spec == Init /\ [][Next]_vars

\* two callers, interleaved between iterations of their for loops
NextConc ==
    \E p \in Procs :
        \/ Call(p, ConcStyles, ConcTags)
        \/ Step(p)
        \/ Return(p)

SpecConc == Init /\ [][NextConc]_vars

\* ------------------------------------------------------------------------
\* Vocabulary of the properties
\* ------------------------------------------------------------------------

NumericFields == {"margin_before", "margin_after", "padding"}

StyledFields == {"display"} \cup NumericFields

OtherFields == {"tag", "prefix", "suffix", "whitespace"}

Returned(p) == pc[p] = "returned"

\* the record a call returned, and the record it was given
Res(p) == heap[result[p]]

Base(p) == heap[base[p]]

\* the declarations of a style string as written, and their two sides
RawDecls(s) == str_split(s, ";")

HasColon(d) == InSeq(":", d)

KeyOf(d) == str_strip(str_lower(str_split1(d, ":")[1]))

ValueOf(d) == str_strip(str_lower(str_split1(d, ":")[2]))

\* the table of supported properties: normalized key and the field it sets
PropertyTable ==
    << <<<<"d","i","s","p","l","a","y">>, "display">>,
       <<<<"m","a","r","g","i","n","_","t","o","p">>, "margin_before">>, <<<<"m","a","r","g","i","n","_","b","e","f","o","r","e">>, "margin_before">>,
       <<<<"m","a","r","g","i","n","_","b","o","t","t","o","m">>, "margin_after">>, <<<<"m","a","r","g","i","n","_","a","f","t","e","r">>, "margin_after">>,
       <<<<"p","a","d","d","i","n","g","_","l","e","f","t">>, "padding">>, <<<<"p","a","d","d","i","n","g","_","s","t","a","r","t">>, "padding">> >>

NormalKey(k) == str_replace(str_replace(k, <<"-","w","e","b","k","i","t","-">>, <<>>), <<"-">>, <<"_">>)

FieldOfKey(k) ==
    IF \E i \in 1..Len(PropertyTable) : PropertyTable[i][1] = k
    THEN PropertyTable[CHOOSE i \in 1..Len(PropertyTable) : PropertyTable[i][1] = k][2]
    ELSE ""

\* the field declaration d targets: "" when d has no ':' or no registered key
FieldOf(d) == IF HasColon(d) THEN FieldOfKey(NormalKey(KeyOf(d))) ELSE ""

\* what each declaration of ds is about: the field it targets and its value
RECURSIVE Effects(_)
Effects(ds) ==
    IF ds = <<>> THEN <<>>
    ELSE <<[field |-> FieldOf(Head(ds)),
            value |-> IF HasColon(Head(ds)) THEN ValueOf(Head(ds)) ELSE <<>>]>>
             \o Effects(Tail(ds))

EffectsOf(s) == Effects(RawDecls(s))

\* a length with no number+unit match, or whose matched number does not parse
Unparsable(m) == ~m.matched \/ float(m.g1).exc # ""

MalformedLength(v) == Unparsable(RE_UNIT_search(v))

DisplayFor(v) ==
    IF v = <<"b","l","o","c","k">> THEN "block" ELSE IF v = <<"n","o","n","e">> THEN "none" ELSE "inline"

\* p has just completed an iteration of its for loop
Stepped(p) ==
    /\ pc[p] = "loop"
    /\ directives[p] # <<>>
    /\ directives'[p] = Tail(directives[p])

NonNegative(el) == \A f \in NumericFields : el[f] >= 0

\* ------------------------------------------------------------------------
\* Properties
\* ------------------------------------------------------------------------

\* C1: no step of any call changes a field of a DEFAULT_CSS record or of the
\* record passed as baseline; only the clone is written.
C1_BaselineNeverMutated ==
    [][\A a \in 1..Len(heap) :
          (a <= Len(DEFAULT_CSS_entries) \/ \E p \in Procs : a = base[p] \/ a = base'[p])
              => heap'[a] = heap[a]]_vars

\* a call on a DEFAULT_CSS record has returned a record that differs from it,
\* so a handler has written
C1_Witness ==
    \E p \in Procs :
        /\ Returned(p)
        /\ base[p] \in 1..Len(DEFAULT_CSS_entries)
        /\ Res(p) # DEFAULT_CSS_entries[base[p]]

\* C2: an iteration on a margin/padding declaration with a malformed length
\* does not raise, leaves the record as it was, and the loop goes on.
C2_MalformedLengthIsSkipped ==
    [][\A p \in Procs :
          (Stepped(p) /\ FieldOf(Head(directives[p])) \in NumericFields
             /\ MalformedLength(ValueOf(Head(directives[p]))))
              => (pc'[p] = "loop" /\ heap'[custome[p]] = heap[custome[p]])]_vars

\* the end of the leading run of digits and points of v
NumberEnd(v) ==
    CHOOSE k \in 0..Len(v) :
        /\ \A i \in 1..k : InSeq(v[i], Digits) \/ v[i] = "."
        /\ (k < Len(v) => ~(InSeq(v[k+1], Digits) \/ v[k+1] = "."))

NumberPart(v) == SubSeq(v, 1, NumberEnd(v))

UnitPart(v) == SubSeq(v, NumberEnd(v) + 1, Len(v))

\* the length values the conversion rule speaks of: a decimal number followed
\* by a unit of letters, which may be absent
IsDecimalWithUnit(v) ==
    /\ NumberEnd(v) > 0
    /\ float(NumberPart(v)).exc = ""
    /\ \A i \in 1..Len(UnitPart(v)) : InSeq(UnitPart(v)[i], LowerCase)

\* the integers nearest to n/d; both neighbours of a half
Nearest(n, d) ==
    LET q == n \div d
        r == n % d
    IN  IF 2*r < d THEN {q} ELSE IF 2*r > d THEN {q + 1} ELSE {q, q + 1}

EmRule(v) ==
    LET x == float(NumberPart(v))
    IN  IF UnitPart(v) \in {<<"e","m">>, <<"r","e","m">>, <<"q","e","m">>}
        THEN Nearest(x.num, x.den)
        ELSE Nearest(x.num, x.den * 8)

\* C3: an iteration on a margin/padding declaration whose value is a decimal
\* number n followed by a unit sets the field to n rounded for em, rem and
\* qem, and to n/8 rounded for any other unit and for no unit.
C3_EmConversion ==
    [][\A p \in Procs :
          (Stepped(p) /\ FieldOf(Head(directives[p])) \in NumericFields
             /\ IsDecimalWithUnit(ValueOf(Head(directives[p]))))
              => (pc'[p] = "loop"
                    /\ heap'[custome[p]][FieldOf(Head(directives[p]))]
                           \in EmRule(ValueOf(Head(directives[p]))))]_vars

\* C4 as stated: a call on a baseline with non-negative margins and padding
\* returns a record with non-negative margins and padding.
C4_AlwaysNonNegative ==
    \A p \in Procs : (Returned(p) /\ NonNegative(Base(p))) => NonNegative(Res(p))

\* no margin/padding declaration has a '-' in its value
NoMinusSign(es) ==
    \A i \in 1..Len(es) : es[i].field \in NumericFields => ~InSeq("-", es[i].value)

\* C4 amended: the margins and padding returned are non-negative when the
\* baseline's are and no margin/padding declaration has a '-' in its value.
C4_NonNegativeWithoutMinus ==
    \A p \in Procs :
        (Returned(p) /\ NonNegative(Base(p)) /\ NoMinusSign(EffectsOf(style[p])))
            => NonNegative(Res(p))

\* a call without '-' has returned and has changed a margin or the padding
C4_Witness ==
    \E p \in Procs :
        /\ Returned(p) /\ NonNegative(Base(p)) /\ NoMinusSign(EffectsOf(style[p]))
        /\ \E f \in NumericFields : Res(p)[f] # Base(p)[f]

\* e is a well-formed declaration targeting f
Sets(e, f) ==
    /\ e.field = f
    /\ (f \in NumericFields => ~MalformedLength(e.value))

ValueSet(e) ==
    IF e.field = "display" THEN DisplayFor(e.value) ELSE _get_em(e.value).val

\* the value of field f after the declarations es: that of the right-most
\* well-formed declaration targeting f, else dflt
RECURSIVE LastWins(_, _, _)
LastWins(f, es, dflt) ==
    IF es = <<>> THEN dflt
    ELSE IF Sets(es[Len(es)], f) THEN ValueSet(es[Len(es)])
    ELSE LastWins(f, SubSeq(es, 1, Len(es) - 1), dflt)

LastWinsIn(res, bas, es) == \A f \in StyledFields : res[f] = LastWins(f, es, bas[f])

\* C5: each of display, margin_before, margin_after and padding of a returned
\* record is the value of the right-most well-formed declaration targeting
\* it, and the baseline's value when there is none.
C5_LastDeclarationWins ==
    \A p \in Procs : Returned(p) => LastWinsIn(Res(p), Base(p), EffectsOf(style[p]))

\* 'margin-top:1em;margin-top:2em' has been resolved to margin_before 2
C5_Witness ==
    \E p \in Procs :
        /\ Returned(p)
        /\ style[p] = <<"m","a","r","g","i","n","-","t","o","p",":","1","e","m",";","m","a","r","g","i","n","-","t","o","p",":","2","e","m">>
        /\ Res(p).margin_before = 2
        /\ Base(p).margin_before # 2

Targeted(es, f) == \E i \in 1..Len(es) : es[i].field = f

OnlyTargeted(res, bas, es) ==
    /\ \A f \in OtherFields : res[f] = bas[f]
    /\ \A f \in StyledFields : ~Targeted(es, f) => res[f] = bas[f]

\* C6: a returned record differs from the baseline only in fields that a
\* declaration with ':' and a registered key targets; tag, prefix, suffix
\* and whitespace never differ.
C6_OnlyTargetedFieldsChange ==
    \A p \in Procs : Returned(p) => OnlyTargeted(Res(p), Base(p), EffectsOf(style[p]))

\* a call whose only targeted field is margin_after has changed it, on a
\* baseline with margins of its own
C6_Witness ==
    \E p \in Procs :
        /\ Returned(p)
        /\ {f \in StyledFields : Targeted(EffectsOf(style[p]), f)} = {"margin_after"}
        /\ Res(p).margin_after # Base(p).margin_after
        /\ Base(p).margin_before # Res(p).margin_after

LastDecl(s) == RawDecls(s)[Len(RawDecls(s))]

IsDisplayDecl(d) == HasColon(d) /\ KeyOf(d) = <<"d","i","s","p","l","a","y">>

DisplayDecided(res, d) == IsDisplayDecl(d) => res.display = DisplayFor(ValueOf(d))

\* C7: when the last declaration of the style string is a display
\* declaration, the returned display is block for the value 'block', none
\* for 'none' and inline for any other value, the value being trimmed and
\* lower-cased, whatever the baseline's display.
C7_DisplayValue ==
    \A p \in Procs : Returned(p) => DisplayDecided(Res(p), LastDecl(style[p]))

\* 'DISPLAY: NONE' has been resolved to none on a baseline that is not none
C7_Witness ==
    \E p \in Procs :
        /\ Returned(p)
        /\ style[p] = <<"D","I","S","P","L","A","Y",":"," ","N","O","N","E">>
        /\ Base(p).display # "none"
        /\ Res(p).display = "none"

\* alias and vendor-prefixed keys with their canonical key
AliasTable ==
    << <<<<"m","a","r","g","i","n","-","b","e","f","o","r","e">>, <<"m","a","r","g","i","n","-","t","o","p">>>>,
       <<<<"-","w","e","b","k","i","t","-","m","a","r","g","i","n","-","b","e","f","o","r","e">>, <<"m","a","r","g","i","n","-","t","o","p">>>>,
       <<<<"m","a","r","-","w","e","b","k","i","t","-","g","i","n","-","t","o","p">>, <<"m","a","r","g","i","n","-","t","o","p">>>>,
       <<<<"m","a","r","g","i","n","-","a","f","t","e","r">>, <<"m","a","r","g","i","n","-","b","o","t","t","o","m">>>>,
       <<<<"-","w","e","b","k","i","t","-","m","a","r","g","i","n","-","a","f","t","e","r">>, <<"m","a","r","g","i","n","-","b","o","t","t","o","m">>>>,
       <<<<"p","a","d","d","i","n","g","-","s","t","a","r","t">>, <<"p","a","d","d","i","n","g","-","l","e","f","t">>>>,
       <<<<"-","w","e","b","k","i","t","-","p","a","d","d","i","n","g","-","s","t","a","r","t">>, <<"p","a","d","d","i","n","g","-","l","e","f","t">>>> >>

\* the call p has ended as r: the same exception, or the same record
EndedAs(p, r) ==
    IF r.exc # "" THEN pc[p] = "raised" ELSE Returned(p) /\ Res(p) = r.el

\* C8: a call on 'alias:v' ends as get_style_attribute does on
\* 'canonical:v' with the same baseline: the same record, or the same
\* exception.
C8_AliasEquivalence ==
    \A p \in Procs : \A i \in 1..Len(AliasTable) : \A v \in LengthValues :
        (pc[p] \in {"returned", "raised"} /\ style[p] = AliasTable[i][1] \o <<":">> \o v)
            => EndedAs(p, get_style_attribute(AliasTable[i][2] \o <<":">> \o v, Base(p)))

\* '-webkit-margin-before:2em' has been resolved to margin_before 2
C8_Witness ==
    \E p \in Procs :
        /\ Returned(p)
        /\ style[p] = <<"-","w","e","b","k","i","t","-","m","a","r","g","i","n","-","b","e","f","o","r","e",":","2","e","m">>
        /\ Base(p).margin_before # 2
        /\ Res(p).margin_before = 2

\* C9: with calls interleaved between iterations, each call returns the
\* record get_style_attribute gives for its arguments when run alone, and
\* the DEFAULT_CSS records stay as built.
C9_InterleavingIsInvisible ==
    /\ \A i \in 1..Len(DEFAULT_CSS_entries) : heap[i] = DEFAULT_CSS_entries[i]
    /\ \A p \in Procs :
          Returned(p) =>
              Res(p) = get_style_attribute(style[p], DEFAULT_CSS_entries[base[p]]).el

\* two calls on the same DEFAULT_CSS record have both returned, with
\* different results, neither equal to the baseline
C9_Witness ==
    /\ \A p \in Procs : Returned(p)
    /\ base[1] = base[2]
    /\ heap[result[1]] # heap[result[2]]
    /\ \A p \in Procs : Res(p) # Base(p)

\* C10: resolving the same style string again on the record a call returned
\* returns a record equal to it in all eight fields.
C10_Idempotent ==
    \A p \in Procs : (Returned(p) /\ prev[p] # 0) => Res(p) = heap[prev[p]]

\* the second call has returned, on a record the first call had changed
C10_Witness ==
    \E p \in Procs :
        /\ Returned(p)
        /\ prev[p] # 0
        /\ base[p] = prev[p]
        /\ heap[prev[p]] # DEFAULT_CSS_entries[DEFAULT_CSS(heap[prev[p]].tag)]
====
